---------------------------- MODULE Spec2Model ----------------------------
(***************************************************************************)
(* A model of get_random_wiki.py: the text normalizer (clean_text,         *)
(* strip_html_text), the sentence splitter, the validity predicate, the    *)
(* candidate selector (fetch_random_summary), the CSV sink (append_to_csv) *)
(* and the retry loop of main.                                             *)
(*                                                                         *)
(* A Python str is a sequence of one-character values, so Len is the       *)
(* character count that len() returns.  The two characters of the          *)
(* Japanese edit marker and the ideographic full stop are the values HEN,  *)
(* SHUU and MARU.                                                          *)
(*                                                                         *)
(* The environment is what the code itself branches on: a request may      *)
(* raise RequestException (caught in main), the API may return no page,    *)
(* no "Overview" section or any text, and stat() of an existing file may   *)
(* raise OSError (caught in append_to_csv).  Failures the code has no      *)
(* branch for (open or write failing) are outside the model.               *)
(***************************************************************************)
EXTENDS Integers, Sequences, FiniteSets, TLC

HEN == "hen"      \* U+7DE8, first character of the edit marker
SHUU == "shuu"    \* U+96C6, second character of the edit marker
MARU == "maru"    \* U+3002, ideographic full stop
ZEXC == "zexc"    \* U+FF01, fullwidth exclamation mark
ZQUE == "zque"    \* U+FF1F, fullwidth question mark
GAI == "gai"      \* U+6982, first character of the "Overview" heading
YOU == "you"      \* U+8981, second character of the "Overview" heading
NL == "\n"
SP == " "

----------------------------------------------------------------------------
(* Character classes of the regular expressions.                           *)

IsWs(c) == c \in {SP, NL}

IsDigit(c) == c \in {"0", "1", "2", "3", "4", "5", "6", "7", "8", "9"}

IsTerminator(c) == c \in {MARU, ZEXC, ZQUE, "!", "?"}

Least(S) == CHOOSE j \in S : \A k \in S : j <= k

Greatest(S) == CHOOSE j \in S : \A k \in S : j >= k

\* The first index >= i of s that holds no whitespace (Len(s)+1 if none):
\* where a greedy \s* that starts at i ends.
SkipWs(s, i) ==
  IF i > Len(s) THEN i
  ELSE Least({j \in i .. Len(s) : ~IsWs(s[j])} \cup {Len(s) + 1})

\* Where a greedy \d* that starts at i ends.
SkipDigits(s, i) ==
  IF i > Len(s) THEN i
  ELSE Least({j \in i .. Len(s) : ~IsDigit(s[j])} \cup {Len(s) + 1})

At(s, i, c) == i >= 1 /\ i <= Len(s) /\ s[i] = c

Slice(s, i, j) == IF j < i THEN <<>> ELSE SubSeq(s, i, j)

\* Where the search of a pattern that starts at i finds its match: the
\* least j >= i at which MatchEnd gives a match, or 0.
FirstMatch(s, i, MatchEnd(_, _)) ==
  LET starts == {j \in i .. Len(s) : MatchEnd(s, j) > 0}
  IN  IF starts = {} THEN 0 ELSE Least(starts)

----------------------------------------------------------------------------
(* REF_MARK_RE = \[\d+\] : the index after a match that starts at i, or 0. *)

RefMatchEnd(s, i) ==
  IF ~At(s, i, "[") THEN 0
  ELSE LET j == SkipDigits(s, i + 1)
       IN  IF j > i + 1 /\ At(s, j, "]") THEN j + 1 ELSE 0

(* EDIT_MARK_RE = \[\s*<HEN><SHUU>\s*\] *)
EditMatchEnd(s, i) ==
  IF ~At(s, i, "[") THEN 0
  ELSE LET j == SkipWs(s, i + 1)
       IN  IF At(s, j, HEN) /\ At(s, j + 1, SHUU)
           THEN LET k == SkipWs(s, j + 2)
                IN  IF At(s, k, "]") THEN k + 1 ELSE 0
           ELSE 0

(* (?m)^\s*\*\s* : ^ holds at the start of the text and after a newline.   *)
BulletMatchEnd(s, i) ==
  IF ~(i = 1 \/ At(s, i - 1, NL)) THEN 0
  ELSE LET j == SkipWs(s, i)
       IN  IF At(s, j, "*") THEN SkipWs(s, j + 1) ELSE 0

(* MULTI_WS_RE = \s+ *)
WsMatchEnd(s, i) ==
  IF i <= Len(s) /\ IsWs(s[i]) THEN SkipWs(s, i) ELSE 0

RECURSIVE RefSubFrom(_, _)
\* re.sub of REF_MARK_RE by "": one pass, left to right, over the
\* non-overlapping matches of the input: the text up to the first match,
\* then the same of the text after that match.
RefSubFrom(s, i) ==
  LET j == FirstMatch(s, i, RefMatchEnd)
  IN  IF j = 0 THEN Slice(s, i, Len(s))
      ELSE Slice(s, i, j - 1) \o RefSubFrom(s, RefMatchEnd(s, j))

RefSub(s) == RefSubFrom(s, 1)

RECURSIVE EditSubFrom(_, _)
EditSubFrom(s, i) ==
  LET j == FirstMatch(s, i, EditMatchEnd)
  IN  IF j = 0 THEN Slice(s, i, Len(s))
      ELSE Slice(s, i, j - 1) \o EditSubFrom(s, EditMatchEnd(s, j))

EditSub(s) == EditSubFrom(s, 1)

RECURSIVE BulletSubFrom(_, _)
BulletSubFrom(s, i) ==
  LET j == FirstMatch(s, i, BulletMatchEnd)
  IN  IF j = 0 THEN Slice(s, i, Len(s))
      ELSE Slice(s, i, j - 1) \o BulletSubFrom(s, BulletMatchEnd(s, j))

BulletSub(s) == BulletSubFrom(s, 1)

RECURSIVE WsSubFrom(_, _)
\* MULTI_WS_RE.sub(" ", text)
WsSubFrom(s, i) ==
  LET j == FirstMatch(s, i, WsMatchEnd)
  IN  IF j = 0 THEN Slice(s, i, Len(s))
      ELSE Slice(s, i, j - 1) \o <<SP>> \o WsSubFrom(s, WsMatchEnd(s, j))

WsSub(s) == WsSubFrom(s, 1)

\* The last index <= i of s that holds no whitespace (0 if none).
LastNonWs(s, i) ==
  Greatest({j \in 1 .. i : ~IsWs(s[j])} \cup {0})

\* str.strip()
Strip(s) == Slice(s, SkipWs(s, 1), LastNonWs(s, Len(s)))

\* clean_text
clean_text(text) == Strip(WsSub(BulletSub(EditSub(RefSub(text)))))

----------------------------------------------------------------------------
(* strip_html_text: the three tag substitutions, html.unescape, clean_text *)

\* <br\s*/?>
BrMatchEnd(s, i) ==
  IF ~(At(s, i, "<") /\ At(s, i + 1, "b") /\ At(s, i + 2, "r")) THEN 0
  ELSE LET j == SkipWs(s, i + 3)
           k == IF At(s, j, "/") THEN j + 1 ELSE j
       IN  IF At(s, k, ">") THEN k + 1 ELSE 0

\* </(p|li|h\d|div)>
CloseMatchEnd(s, i) ==
  IF ~(At(s, i, "<") /\ At(s, i + 1, "/")) THEN 0
  ELSE LET j == i + 2
       IN  IF At(s, j, "p") /\ At(s, j + 1, ">") THEN j + 2
           ELSE IF At(s, j, "l") /\ At(s, j + 1, "i") /\ At(s, j + 2, ">")
                THEN j + 3
           ELSE IF At(s, j, "h") /\ j + 1 <= Len(s) /\ IsDigit(s[j + 1])
                   /\ At(s, j + 2, ">")
                THEN j + 3
           ELSE IF At(s, j, "d") /\ At(s, j + 1, "i") /\ At(s, j + 2, "v")
                   /\ At(s, j + 3, ">")
                THEN j + 4
           ELSE 0

\* Where a greedy [^>]* that starts at i ends.
SkipNotGt(s, i) ==
  IF i > Len(s) THEN i
  ELSE Least({j \in i .. Len(s) : s[j] = ">"} \cup {Len(s) + 1})

\* HTML_TAG_RE = <[^>]+>
TagMatchEnd(s, i) ==
  IF ~At(s, i, "<") THEN 0
  ELSE LET j == SkipNotGt(s, i + 1)
       IN  IF j > i + 1 /\ At(s, j, ">") THEN j + 1 ELSE 0

RECURSIVE BrSubFrom(_, _)
BrSubFrom(s, i) ==
  LET j == FirstMatch(s, i, BrMatchEnd)
  IN  IF j = 0 THEN Slice(s, i, Len(s))
      ELSE Slice(s, i, j - 1) \o <<NL>> \o BrSubFrom(s, BrMatchEnd(s, j))

RECURSIVE CloseSubFrom(_, _)
CloseSubFrom(s, i) ==
  LET j == FirstMatch(s, i, CloseMatchEnd)
  IN  IF j = 0 THEN Slice(s, i, Len(s))
      ELSE Slice(s, i, j - 1) \o <<NL>> \o CloseSubFrom(s, CloseMatchEnd(s, j))

RECURSIVE TagSubFrom(_, _)
TagSubFrom(s, i) ==
  LET j == FirstMatch(s, i, TagMatchEnd)
  IN  IF j = 0 THEN Slice(s, i, Len(s))
      ELSE Slice(s, i, j - 1) \o <<SP>> \o TagSubFrom(s, TagMatchEnd(s, j))

\* html.unescape on the character references &amp &lt &gt, each with or
\* without its semicolon.  The texts of this model hold no other reference.
EntityEnd(s, i) ==
  IF ~At(s, i, "&") THEN 0
  ELSE LET e == IF At(s, i + 1, "a") /\ At(s, i + 2, "m") /\ At(s, i + 3, "p")
                 THEN i + 4
                 ELSE IF At(s, i + 2, "t")
                         /\ (At(s, i + 1, "l") \/ At(s, i + 1, "g"))
                      THEN i + 3
                 ELSE 0
       IN  IF e = 0 THEN 0 ELSE IF At(s, e, ";") THEN e + 1 ELSE e

EntityChar(s, i) ==
  IF At(s, i + 1, "a") THEN "&" ELSE IF At(s, i + 1, "l") THEN "<" ELSE ">"

RECURSIVE UnescapeFrom(_, _)
UnescapeFrom(s, i) ==
  LET j == FirstMatch(s, i, EntityEnd)
  IN  IF j = 0 THEN Slice(s, i, Len(s))
      ELSE Slice(s, i, j - 1) \o <<EntityChar(s, j)>>
           \o UnescapeFrom(s, EntityEnd(s, j))

unescape(s) == UnescapeFrom(s, 1)

\* strip_html_text
strip_html_text(text) ==
  clean_text(unescape(TagSubFrom(CloseSubFrom(BrSubFrom(text, 1), 1), 1)))

----------------------------------------------------------------------------
(* Sentence splitter, validity predicate, sentence chooser.                *)

MinTextLen == 30

\* An absent value (Python None) is the empty tuple; a present string x of
\* an optional result is the one-element tuple <<x>>.
None == <<>>

RECURSIVE ChunksFrom(_, _)
\* re.split(r"(?<=[terminators])", text): the chunks of text[from..], cut
\* after every terminator.  A terminator that ends the text leaves an
\* empty last chunk.
ChunksFrom(s, from) ==
  LET ends == {j \in from .. Len(s) : IsTerminator(s[j])}
  IN  IF ends = {} THEN <<Slice(s, from, Len(s))>>
      ELSE <<Slice(s, from, Least(ends))>> \o ChunksFrom(s, Least(ends) + 1)

RECURSIVE StripAndDropEmpty(_)
\* [c.strip() for c in chunks if c.strip()]
StripAndDropEmpty(chunks) ==
  IF chunks = <<>> THEN <<>>
  ELSE LET c == Strip(Head(chunks))
       IN  (IF c # <<>> THEN <<c>> ELSE <<>>) \o StripAndDropEmpty(Tail(chunks))

\* split_sentences
split_sentences(text) == StripAndDropEmpty(ChunksFrom(text, 1))

\* is_valid_text
is_valid_text(text) == Len(text) >= MinTextLen

RECURSIVE FirstValid(_)
\* The for loop of choose_valid_sentence: the first valid sentence.
FirstValid(sentences) ==
  IF sentences = <<>> THEN None
  ELSE IF is_valid_text(Head(sentences)) THEN <<Head(sentences)>>
  ELSE FirstValid(Tail(sentences))

\* choose_valid_sentence without the validity check in its loop
choose_first_sentence(text) ==
  LET sentences == split_sentences(text)
  IN  IF sentences # <<>> THEN <<Head(sentences)>> ELSE None

\* choose_valid_sentence
choose_valid_sentence(text) ==
  LET picked == FirstValid(split_sentences(text))
      fallback == Strip(text)
  IN  IF picked # None THEN picked
      ELSE IF is_valid_text(fallback) THEN <<fallback>>
      ELSE None

----------------------------------------------------------------------------
(* The article source as one attempt sees it, and the candidate selector.  *)
(*                                                                         *)
(* A response is what the API answers to the requests of one               *)
(* fetch_random_summary call:                                              *)
(*   fail          which request raises RequestException ("none" if none)  *)
(*   pages         the random query returned a page                        *)
(*   title         that page's title                                       *)
(*   sections      the headings of the page: [line, hasIndex]              *)
(*   html          the HTML of the section request                         *)
(*   extractPages  the extract query returned a page                       *)
(*   extract       that page's plain-text lead                             *)

Raised == <<"RequestException">>

OverviewLine == <<GAI, YOU>>

\* fetch_random_page_title, after a request that did not raise
fetch_random_page_title(r) ==
  IF ~r.pages THEN None
  ELSE LET title == Strip(r.title)
       IN  IF title = <<>> THEN None ELSE <<title>>

RECURSIVE FirstOverview(_, _)
\* The for loop over the sections: the position of the first section whose
\* stripped heading is the Overview heading, or 0.
FirstOverview(sections, k) ==
  IF k > Len(sections) THEN 0
  ELSE IF Strip(sections[k].line) = OverviewLine THEN k
  ELSE FirstOverview(sections, k + 1)

\* overview_index is not None
HasOverviewIndex(r) ==
  LET k == FirstOverview(r.sections, 1)
  IN  k > 0 /\ r.sections[k].hasIndex

\* fetch_overview_section_text, after requests that did not raise
fetch_overview_section_text(r) ==
  IF ~HasOverviewIndex(r) THEN <<>> ELSE strip_html_text(r.html)

\* fetch_lead_extract_all, after a request that did not raise
fetch_lead_extract_all(r) ==
  IF ~r.extractPages THEN <<>> ELSE clean_text(r.extract)

\* Step 1 of fetch_random_summary: the overview text is used.
OverviewAccepted(overview_text) ==
  overview_text # <<>> /\ is_valid_text(overview_text)

\* Step 2 without its validity check
LeadNonEmpty(lead_text) == lead_text # <<>>

\* Step 2 of fetch_random_summary: the whole lead is used.
LeadAccepted(lead_text) ==
  lead_text # <<>> /\ is_valid_text(lead_text)

\* Step 3 of fetch_random_summary: one sentence of the lead, or None.
PickFromLead(title, lead_text) ==
  LET picked == IF lead_text # <<>> THEN choose_valid_sentence(lead_text)
                ELSE None
  IN  IF picked # None /\ picked[1] # <<>> THEN <<title, picked[1]>>
      ELSE None

\* fetch_random_summary with steps 1 and 2 in the other order
fetch_random_summary_lead_first(r) ==
  IF r.fail = "title" THEN Raised
  ELSE LET title == fetch_random_page_title(r)
  IN  IF title = None THEN None
      ELSE IF r.fail = "lead" THEN Raised
      ELSE LET lead_text == fetch_lead_extract_all(r)
      IN  IF LeadAccepted(lead_text) THEN <<title[1], lead_text>>
          ELSE IF r.fail = "sections" THEN Raised
          ELSE IF HasOverviewIndex(r) /\ r.fail = "text" THEN Raised
          ELSE LET overview_text == fetch_overview_section_text(r)
          IN  IF OverviewAccepted(overview_text)
              THEN <<title[1], overview_text>>
              ELSE PickFromLead(title[1], lead_text)

\* fetch_random_summary: None, <<title, text>>, or Raised when a request
\* that the call reaches raises.
fetch_random_summary(r) ==
  IF r.fail = "title" THEN Raised
  ELSE LET title == fetch_random_page_title(r)
  IN  IF title = None THEN None
      ELSE IF r.fail = "sections" THEN Raised
      ELSE IF HasOverviewIndex(r) /\ r.fail = "text" THEN Raised
      ELSE LET overview_text == fetch_overview_section_text(r)
      IN  IF OverviewAccepted(overview_text) THEN <<title[1], overview_text>>
          ELSE IF r.fail = "lead" THEN Raised
          ELSE LET lead_text == fetch_lead_extract_all(r)
          IN  IF LeadAccepted(lead_text) THEN <<title[1], lead_text>>
              ELSE PickFromLead(title[1], lead_text)

----------------------------------------------------------------------------
(* The CSV sink.  A file is [exists, rows]; its size is positive iff it    *)
(* holds a row (the byte-order mark is written with the first row).        *)

HeaderRow == << <<"t","i","t","l","e">>, <<"t","e","x","t">> >>

NoFile == [exists |-> FALSE, rows |-> <<>>]

\* need_header: statRaises is whether csv_path.stat() raises OSError.
NeedHeader(f, statRaises) ==
  IF f.exists
  THEN IF statRaises THEN TRUE
       ELSE IF Len(f.rows) > 0 THEN FALSE ELSE TRUE
  ELSE TRUE

\* append_to_csv: the file after the call
append_to_csv(f, title, text, statRaises) ==
  [exists |-> TRUE,
   rows |-> f.rows
            \o (IF NeedHeader(f, statRaises) THEN <<HeaderRow>> ELSE <<>>)
            \o << <<title, text>> >>]

----------------------------------------------------------------------------
(* Bounds of the model and the inputs drawn within them.                   *)

MaxCount == 3      \* --count ranges over -1 .. MaxCount
MaxTries == 3      \* --max-tries ranges over -1 .. MaxTries
MaxAppends == 3    \* append_to_csv calls on one path, taken alone
MaxSegs == 3       \* segments of a lead extract given to the selector
MaxCleanLen == 5   \* length of a text given to clean_text alone
MaxAround == 2     \* characters on either side of a marker in such a text

Rep(c, n) == [k \in 1 .. n |-> c]

RECURSIVE Concat(_)
Concat(parts) ==
  IF parts = <<>> THEN <<>> ELSE Head(parts) \o Concat(Tail(parts))

SeqsUpTo(S, n) == UNION {[1 .. k -> S] : k \in 0 .. n}

\* Texts for clean_text: every text of at most MaxCleanLen characters, and
\* every marker or bullet with at most MaxAround characters on either side.
CleanAlphabet == {"[", "]", "1", "*", SP, NL, "x", HEN, SHUU}

MarkerTexts == {<<"[", "1", "]">>, <<"[", HEN, SHUU, "]">>, <<"*", SP>>}

CleanInputs ==
  SeqsUpTo(CleanAlphabet, MaxCleanLen)
  \cup {a \o m \o b : a, b \in SeqsUpTo(CleanAlphabet, MaxAround),
                       m \in MarkerTexts}

\* Lead extracts for the selector: at most MaxSegs segments, whose lengths
\* put a text and its sentences on either side of MinTextLen.
LeadSegs ==
  {Rep("x", MinTextLen - 1), Rep("y", MinTextLen), Rep("z", 14),
   <<MARU>>, <<SP>>, <<"[", "1", "]">>}

LeadExtracts == {Concat(parts) : parts \in SeqsUpTo(LeadSegs, MaxSegs)}

Para(text) == <<"<", "p", ">">> \o text \o <<"<", "/", "p", ">">>

\* Section HTML: a valid paragraph, one that is a character short, one that
\* is valid only before its character reference is decoded, and one that
\* is valid only before its tags are stripped.
OverviewHtmls ==
  {Para(Rep("o", MinTextLen)),
   Para(Rep("o", MinTextLen - 1)),
   Para(Rep("o", MinTextLen - 2) \o <<"&", "a", "m", "p", ";">>),
   <<"<", "b", ">">> \o Rep("o", MinTextLen - 3) \o <<"<", "b", "r", "/", ">">>}

OtherLine == <<"h">>

SectionLists ==
  {<<>>,
   <<[line |-> OtherLine, hasIndex |-> TRUE],
     [line |-> <<SP>> \o OverviewLine, hasIndex |-> TRUE]>>}

SelectResponses ==
  [fail : {"none", "lead"},
   pages : {TRUE},
   title : {<<"T">>, <<SP>>},
   sections : SectionLists,
   html : OverviewHtmls,
   extractPages : {TRUE},
   extract : LeadExtracts]

\* Responses for the runs of main: one per way an attempt can end.
BaseResponse ==
  [fail |-> "none", pages |-> TRUE, title |-> <<"T">>, sections |-> <<>>,
   html |-> <<>>, extractPages |-> TRUE, extract |-> <<>>]

MainResponses ==
  {\* the overview is taken, the lead is valid too
   [BaseResponse EXCEPT !.title = <<"A">>,
                        !.sections = <<[line |-> OverviewLine, hasIndex |-> TRUE]>>,
                        !.html = Para(Rep("o", MinTextLen)),
                        !.extract = Rep("y", MinTextLen)],
   \* no overview section, the whole lead is taken
   [BaseResponse EXCEPT !.title = <<SP, "B">>,
                        !.extract = Rep("y", MinTextLen) \o <<MARU>> \o Rep("z", 14)],
   \* an overview that is too short and a lead that is a character short
   [BaseResponse EXCEPT !.sections = <<[line |-> OverviewLine, hasIndex |-> TRUE]>>,
                        !.html = Para(Rep("o", MinTextLen - 1)),
                        !.extract = Rep("x", MinTextLen - 1) \o <<"[", "1", "]">>],
   \* a short lead of two sentences
   [BaseResponse EXCEPT !.extract = <<"a", MARU, "b", "!">>],
   \* no extract at all
   [BaseResponse EXCEPT !.extractPages = FALSE],
   \* the random query returns no page, or a blank title
   [BaseResponse EXCEPT !.pages = FALSE],
   [BaseResponse EXCEPT !.title = <<SP>>],
   \* a request raises: the title, the section list, the section text, the lead
   [BaseResponse EXCEPT !.fail = "title"],
   [BaseResponse EXCEPT !.fail = "sections"],
   [BaseResponse EXCEPT !.fail = "text",
                        !.sections = <<[line |-> OverviewLine, hasIndex |-> TRUE]>>],
   [BaseResponse EXCEPT !.fail = "lead"]}

\* What the attempts of main can return.
MainResults == {fetch_random_summary(r) : r \in MainResponses}

ArgCounts == -1 .. MaxCount

ArgTries == -1 .. MaxTries

----------------------------------------------------------------------------
(* State.                                                                  *)

VARIABLES
  pc,        \* "start", "record", "try", "after", "finish", "done": main's
             \* position; "idle" outside main
  count,     \* args.count
  max_tries, \* args.max_tries
  rec,       \* iterations of the outer for loop begun
  tries,     \* iterations of the inner for loop begun for this record
  found,     \* main's local found
  saved,     \* main's local saved
  exitCode,  \* what main returned, -1 before it returns
  file,      \* the CSV file at out_csv
  \* history of the current invocation, read by the properties only
  log,       \* how each attempt for this record ended: "raise", "none", "found"
  lastFetch, \* [rec, try, result] of the last attempt that returned
  attempts,  \* fetch_random_summary calls
  nFound,    \* calls that returned a candidate
  accepted,  \* records whose retry loop ended with a candidate
  rows0,     \* rows of the file when the invocation began
  \* append_to_csv alone
  csv,       \* the file
  written,   \* the records passed to the calls so far, in order
  statFailed, \* stat() of the existing file has raised in one of the calls
  \* the selector alone
  spc, resp, result,
  \* clean_text alone
  cpc, cin, c1, c2

mainVars ==
  <<pc, count, max_tries, rec, tries, found, saved, exitCode, file, 
    log, lastFetch, attempts, nFound, accepted, rows0>>

csvVars == <<csv, written, statFailed>>

selectVars == <<spc, resp, result>>

cleanVars == <<cpc, cin, c1, c2>>

otherVars == <<csvVars, selectVars, cleanVars>>

vars == <<mainVars, csvVars, selectVars, cleanVars>>

NoFetch == [rec |-> 0, try |-> 0, result |-> None]

MainIdle ==
  /\ pc = "idle" /\ count = 0 /\ max_tries = 0 /\ rec = 0 /\ tries = 0
  /\ found = None /\ saved = 0 /\ exitCode = -1 /\ file = NoFile
  /\ log = <<>> /\ lastFetch = NoFetch /\ attempts = 0 /\ nFound = 0
  /\ accepted = 0 /\ rows0 = 0

CsvIdle == csv = NoFile /\ written = <<>> /\ statFailed = FALSE

SelectIdle == spc = "idle" /\ resp = BaseResponse /\ result = None

CleanIdle == cpc = "idle" /\ cin = <<>> /\ c1 = <<>> /\ c2 = <<>>

----------------------------------------------------------------------------
(* main                                                                    *)

\* The checks of --count and --max-tries
ArgsValid(c, m) == ~(c <= 0) /\ ~(m <= 0)

\* The inner loop without its break
LoopNeverBreaks(f) == FALSE

\* "if found: break"
LoopBreaks(f) == f # None

\* The outer loop without its reset of found
FoundKept(f) == f

\* "found = None" at the top of the outer loop
FoundAtRecordStart(f) == None

\* "break" in place of "continue": the first skipped record ends the run
AfterSkipAborts == "finish"

\* "continue" after "if not found": on to the next record
AfterSkipPc == "record"

\* A run that always reports success
FinishCodeZero(s) == 0

\* "if saved == 0: return 1", else "return 0"
FinishCode(s) == IF s = 0 THEN 1 ELSE 0

\* The output file as main finds it: absent, empty, or as an earlier
\* invocation that saved one record left it.
PriorFiles ==
  {NoFile,
   [exists |-> TRUE, rows |-> <<>>],
   append_to_csv(NoFile, <<"P">>, Rep("p", MinTextLen), FALSE)}

MainInit ==
  /\ count \in ArgCounts /\ max_tries \in ArgTries
  /\ pc = "start" /\ rec = 0 /\ tries = 0 /\ found = None /\ saved = 0
  /\ exitCode = -1
  /\ file \in PriorFiles
  /\ log = <<>> /\ lastFetch = NoFetch /\ attempts = 0 /\ nFound = 0
  /\ accepted = 0 /\ rows0 = Len(file.rows)

\* The argument checks, then "saved = 0"
Start ==
  /\ pc = "start"
  /\ IF ArgsValid(count, max_tries)
     THEN pc' = "record" /\ exitCode' = exitCode
     ELSE pc' = "done" /\ exitCode' = 1
  /\ saved' = 0
  /\ UNCHANGED <<otherVars, count, max_tries, rec, tries, found, file, log,
                 lastFetch, attempts, nFound, accepted, rows0>>

\* "for _ in range(args.count)": the next record, with found = None
NextRecord ==
  /\ pc = "record" /\ rec < count
  /\ rec' = rec + 1 /\ tries' = 0 /\ found' = FoundAtRecordStart(found)
  /\ log' = <<>> /\ pc' = "try"
  /\ UNCHANGED <<otherVars, count, max_tries, saved, exitCode, file, lastFetch,
                 attempts, nFound, accepted, rows0>>

\* One iteration of "for _ in range(args.max_tries)": a call that raises
\* goes on to the next iteration, one that returns is assigned to found
Attempt ==
  /\ pc = "try" /\ tries < max_tries
  /\ \E res \in MainResults :
       /\ tries' = tries + 1
       /\ attempts' = attempts + 1
       /\ IF res = Raised
          THEN /\ found' = found /\ pc' = "try"
               /\ log' = Append(log, "raise")
               /\ UNCHANGED <<lastFetch, nFound, accepted>>
          ELSE /\ found' = res
               /\ lastFetch' = [rec |-> rec, try |-> tries + 1, result |-> res]
               /\ log' = Append(log, IF res = None THEN "none" ELSE "found")
               /\ nFound' = IF res = None THEN nFound ELSE nFound + 1
               /\ IF LoopBreaks(res)
                  THEN pc' = "after" /\ accepted' = accepted + 1
                  ELSE pc' = "try" /\ accepted' = accepted
  /\ UNCHANGED <<otherVars, count, max_tries, rec, saved, exitCode, file, rows0>>

\* The inner loop has run max_tries times without a break
TriesExhausted ==
  /\ pc = "try" /\ ~(tries < max_tries)
  /\ pc' = "after"
  /\ accepted' = IF found # None THEN accepted + 1 ELSE accepted
  /\ UNCHANGED <<otherVars, count, max_tries, rec, tries, found, saved, exitCode, file,
                 log, lastFetch, attempts, nFound, rows0>>

\* "if not found: ... continue"
SkipRecord ==
  /\ pc = "after" /\ found = None
  /\ pc' = AfterSkipPc
  /\ UNCHANGED <<otherVars, count, max_tries, rec, tries, found, saved, exitCode, file,
                 log, lastFetch, attempts, nFound, accepted, rows0>>

\* "append_to_csv(out_csv, title, text); saved += 1"
SaveRecord ==
  /\ pc = "after" /\ found # None
  /\ \E statRaises \in BOOLEAN :
       file' = append_to_csv(file, found[1], found[2], statRaises)
  /\ saved' = saved + 1
  /\ pc' = "record"
  /\ UNCHANGED <<otherVars, count, max_tries, rec, tries, found, exitCode, log,
                 lastFetch, attempts, nFound, accepted, rows0>>

\* The outer loop is over
RecordsDone ==
  /\ pc = "record" /\ ~(rec < count)
  /\ pc' = "finish"
  /\ UNCHANGED <<otherVars, count, max_tries, rec, tries, found, saved, exitCode, file,
                 log, lastFetch, attempts, nFound, accepted, rows0>>

\* "if saved == 0: return 1 ... return 0"
Finish ==
  /\ pc = "finish"
  /\ exitCode' = FinishCode(saved)
  /\ pc' = "done"
  /\ UNCHANGED <<otherVars, count, max_tries, rec, tries, found, saved, file, log,
                 lastFetch, attempts, nFound, accepted, rows0>>

MainStep ==
  \/ Start \/ NextRecord \/ Attempt \/ TriesExhausted \/ SkipRecord
  \/ SaveRecord \/ RecordsDone \/ Finish

Init == MainInit /\ CsvIdle /\ SelectIdle /\ CleanIdle

Next == MainStep

Spec == Init /\ [][Next]_vars

\* main is sequential code that runs to its return: every step it can take
\* is taken.
FairSpec == Spec /\ WF_vars(MainStep)

----------------------------------------------------------------------------
(* append_to_csv alone: any sequence of at most MaxAppends calls on one    *)
(* path, by one invocation of the program or by several.                   *)

CsvRecords ==
  {<< <<"A">>, Rep("o", MinTextLen) >>,
   << <<"B">>, Rep("y", MinTextLen) >>,
   << <<"t","i","t","l","e">>, Rep("z", MinTextLen) >>}

CsvAppend ==
  /\ Len(written) < MaxAppends
  /\ \E record \in CsvRecords, statRaises \in BOOLEAN :
       /\ csv' = append_to_csv(csv, record[1], record[2], statRaises)
       /\ written' = Append(written, record)
       /\ statFailed' = (statFailed \/ (csv.exists /\ statRaises))
  /\ UNCHANGED <<mainVars, selectVars, cleanVars>>

CsvInit ==
  /\ csv \in {NoFile, [exists |-> TRUE, rows |-> <<>>]} /\ written = <<>>
  /\ statFailed = FALSE
  /\ MainIdle /\ SelectIdle /\ CleanIdle

CsvNext == CsvAppend

SpecCsv == CsvInit /\ [][CsvNext]_vars

----------------------------------------------------------------------------
(* fetch_random_summary alone, on every response of SelectResponses.       *)

SelectCall ==
  /\ spc = "call"
  /\ result' = fetch_random_summary(resp)
  /\ spc' = "returned"
  /\ UNCHANGED <<resp, mainVars, csvVars, cleanVars>>

SelectInit ==
  /\ resp \in SelectResponses /\ spc = "call" /\ result = None
  /\ MainIdle /\ CsvIdle /\ CleanIdle

SelectNext == SelectCall

SpecSelect == SelectInit /\ [][SelectNext]_vars

----------------------------------------------------------------------------
(* clean_text alone, applied once and then again to its own result.        *)

CleanOnce ==
  /\ cpc = "call"
  /\ c1' = clean_text(cin)
  /\ cpc' = "once"
  /\ UNCHANGED <<cin, c2, mainVars, csvVars, selectVars>>

CleanTwice ==
  /\ cpc = "once"
  /\ c2' = clean_text(c1)
  /\ cpc' = "twice"
  /\ UNCHANGED <<cin, c1, mainVars, csvVars, selectVars>>

CleanInit ==
  /\ cin \in CleanInputs /\ cpc = "call" /\ c1 = <<>> /\ c2 = <<>>
  /\ MainIdle /\ CsvIdle /\ SelectIdle

CleanNext == CleanOnce \/ CleanTwice

SpecClean == CleanInit /\ [][CleanNext]_vars

----------------------------------------------------------------------------
(* Properties of the retry loop and of main (Spec, FairSpec).              *)

ArgsRejected == count <= 0 \/ max_tries <= 0

\* The rows the current invocation has added to the file.
NewRows == Slice(file.rows, rows0 + 1, Len(file.rows))

RECURSIVE DataRows(_)
\* The rows of a sequence of rows that are not the header row.
DataRows(rows) ==
  IF rows = <<>> THEN <<>>
  ELSE (IF Head(rows) = HeaderRow THEN <<>> ELSE <<Head(rows)>>)
       \o DataRows(Tail(rows))

IsPrefix(a, b) == Len(a) <= Len(b) /\ SubSeq(b, 1, Len(a)) = a

\* C1: for one record the retry loop makes at most max_tries calls; only
\* the last call made can be one that returned a candidate (the loop stops
\* at the first candidate); a call that raises counts as a try like any
\* other; and after the loop found holds the candidate of that last call,
\* or none, which happens only when all max_tries calls were made.
C1_RetryLoop ==
  pc \in {"try", "after"} =>
    /\ Len(log) <= max_tries
    /\ tries = Len(log)
    /\ \A k \in 1 .. Len(log) - 1 : log[k] # "found"
    /\ pc = "after" =>
         IF log # <<>> /\ log[Len(log)] = "found"
         THEN found # None /\ found = lastFetch.result
              /\ lastFetch.rec = rec /\ lastFetch.try = Len(log)
         ELSE found = None /\ Len(log) = max_tries

\* A call raised, the next one returned a candidate, and the loop stopped
\* with a try to spare.
C1_Witness ==
  pc = "after" /\ log = <<"raise", "found">> /\ max_tries = 3 /\ found # None

\* C3: main returns 0 or 1: 1 when --count or --max-tries is not positive
\* (and then nothing was fetched or written), otherwise 0 exactly when a
\* record was saved.  When every call returned a candidate, count records
\* are saved and the code is 0; when no call did, none is and the code is 1.
C3_ExitCode ==
  pc = "done" =>
    /\ exitCode \in {0, 1}
    /\ ArgsRejected => exitCode = 1 /\ attempts = 0 /\ NewRows = <<>>
    /\ ~ArgsRejected => (exitCode = 0 <=> saved >= 1)
    /\ saved = 0 => exitCode = 1
    /\ Len(DataRows(NewRows)) = saved
    /\ ~ArgsRejected /\ nFound = attempts =>
         saved = count /\ attempts = count /\ exitCode = 0
    /\ nFound = 0 => saved = 0 /\ exitCode = 1

\* count = 3, three calls, three candidates, three records, exit code 0.
C3_Witness ==
  /\ pc = "done" /\ count = 3 /\ attempts = 3 /\ nFound = 3 /\ saved = 3
  /\ Len(DataRows(NewRows)) = 3 /\ exitCode = 0

\* C4: every record row in the file has a text of at least 30 characters
\* and a title that is not empty, and so has the candidate that main is
\* about to hand to append_to_csv.
C4_SavedTextValid ==
  /\ \A k \in 1 .. Len(file.rows) :
       file.rows[k] # HeaderRow =>
         Len(file.rows[k][2]) >= 30 /\ Len(file.rows[k][1]) >= 1
  /\ found # None => Len(found[2]) >= 30 /\ Len(found[1]) >= 1

\* Two records were saved, one from an overview and one from a lead.
C4_Witness ==
  /\ saved = 2
  /\ \E j, k \in 1 .. Len(NewRows) :
       /\ NewRows[j] = << <<"A">>, Rep("o", 30) >>
       /\ NewRows[k][1] = <<"B">> /\ Len(NewRows[k][2]) = 45

\* Steps of main left until it returns, counted generously.
Measure ==
  IF pc = "done" THEN 0
  ELSE IF pc = "finish" THEN 1
  ELSE IF pc = "start" THEN 4 + (MaxCount + 1) * (MaxTries + 4)
  ELSE 2 + (count - rec) * (max_tries + 4)
       + (IF pc = "record" THEN 0
          ELSE IF pc = "after" THEN 1
          ELSE 2 + (max_tries - tries))

\* C6: a record whose tries ended without a candidate is skipped: the
\* step after the loop writes nothing, leaves saved alone and goes on to
\* the outer loop, where the next record starts with no try used; a run
\* makes at most count * max_tries calls; and it terminates: every step
\* brings main closer to its return, a step is possible until then, and
\* main, which takes every step it can, returns.
C6_SkipAndGoOn ==
  /\ [](/\ ~ArgsRejected => attempts <= count * max_tries
        /\ (pc = "try" /\ tries < max_tries) => ENABLED Attempt
        /\ pc # "done" => ENABLED MainStep)
  /\ [][/\ (pc = "after" /\ found = None) =>
             pc' = "record" /\ file' = file /\ saved' = saved /\ rec' = rec
        /\ (pc = "record" /\ pc' = "try") =>
             rec' = rec + 1 /\ tries' = 0 /\ log' = <<>> /\ found' = None
        /\ Measure' < Measure
       ]_vars
  /\ <>(pc = "done")

\* The first record was skipped after all its tries, the second one was
\* then fetched with tries of its own and saved.
C6_Witness ==
  /\ pc = "record" /\ rec = 2 /\ saved = 1 /\ accepted = 1
  /\ attempts = max_tries + Len(log) /\ lastFetch.rec = 2
  /\ Len(DataRows(NewRows)) = 1

\* C7: the file only grows (no step changes or removes a row); whenever a
\* try begins, every record accepted so far is in the file; and a row that
\* is written is the candidate that a call made for the current record
\* returned.
C7_AppendOnly ==
  [][/\ IsPrefix(file.rows, file'.rows)
     /\ pc' = "try" => Len(DataRows(NewRows')) = accepted' /\ saved' = accepted'
     /\ file' # file =>
          /\ pc = "after" /\ lastFetch.rec = rec /\ lastFetch.result # None
          /\ DataRows(Slice(file'.rows, Len(file.rows) + 1, Len(file'.rows)))
               = <<lastFetch.result>>
    ]_vars

\* The third record is being tried with the first two, different ones, in
\* the file in the order they were accepted.
C7_Witness ==
  /\ pc = "try" /\ rec = 3 /\ tries = 1 /\ accepted = 2
  /\ Len(DataRows(NewRows)) = 2
  /\ DataRows(NewRows)[1][1] = <<"B">> /\ DataRows(NewRows)[2][1] = <<"A">>

----------------------------------------------------------------------------
(* Properties of append_to_csv (SpecCsv).                                  *)

\* C5: after any sequence of append_to_csv calls the file holds the header
\* row once, first, and then one row per record in the order of the calls.
C5_HeaderOnce ==
  written # <<>> => csv.rows = <<HeaderRow>> \o written

\* The same, of the calls in which stat() of the existing file succeeds.
HeaderOnceWhenStatSucceeds ==
  (written # <<>> /\ ~statFailed) => csv.rows = <<HeaderRow>> \o written

\* Whatever stat() does: the first row is the header and the record rows
\* are the records in the order of the calls.
RecordsInOrder ==
  written # <<>> =>
    Head(csv.rows) = HeaderRow /\ DataRows(csv.rows) = written

----------------------------------------------------------------------------
(* Properties of fetch_random_summary (SpecSelect).                        *)

Returned == spc = "returned"

TitleOf(r) == Strip(r.title)

OverviewOf(r) == fetch_overview_section_text(r)

LeadOf(r) == fetch_lead_extract_all(r)

\* C2: the overview text, when it has 30 characters or more, is what is
\* returned, whatever the lead is (the lead is not even requested), and
\* otherwise a lead of 30 characters or more is returned whole.
C2_PriorityOrder ==
  (Returned /\ resp.pages /\ TitleOf(resp) # <<>>) =>
    /\ Len(OverviewOf(resp)) >= 30 =>
         result = <<TitleOf(resp), OverviewOf(resp)>>
    /\ (Len(OverviewOf(resp)) < 30 /\ resp.fail = "none"
        /\ Len(LeadOf(resp)) >= 30) =>
         result = <<TitleOf(resp), LeadOf(resp)>>

\* The overview was returned although the lead is valid too.
C2_Witness ==
  /\ Returned /\ Len(OverviewOf(resp)) >= 30 /\ Len(LeadOf(resp)) >= 30
  /\ LeadOf(resp) # OverviewOf(resp)
  /\ result = <<TitleOf(resp), OverviewOf(resp)>>

\* A lead whose first sentence alone is valid was returned whole.
C2_WholeLeadReached ==
  /\ Returned /\ OverviewOf(resp) = <<>>
  /\ Len(split_sentences(LeadOf(resp))) >= 2
  /\ Len(split_sentences(LeadOf(resp))[1]) >= 30
  /\ result = <<TitleOf(resp), LeadOf(resp)>>

\* Step 3 is reached: the requests succeed, there is a title, and neither
\* the overview text nor the whole lead has 30 characters.
StepThree ==
  /\ Returned /\ resp.fail = "none" /\ resp.pages /\ TitleOf(resp) # <<>>
  /\ Len(OverviewOf(resp)) < 30 /\ Len(LeadOf(resp)) < 30

\* C8: in step 3 the result is the first sentence of the normalized lead,
\* in text order, that has 30 characters or more, and none when no
\* sentence has.
C8_FirstValidSentence ==
  StepThree =>
    LET ss == split_sentences(LeadOf(resp))
        ok == {k \in 1 .. Len(ss) : Len(ss[k]) >= 30}
    IN  IF ok = {} THEN result = None
        ELSE \E k \in ok :
               /\ \A j \in ok : k <= j
               /\ result = <<TitleOf(resp), ss[k]>>

\* Step 3 ran on a lead of several sentences and returned none.
C8_Witness ==
  StepThree /\ Len(split_sentences(LeadOf(resp))) >= 2 /\ result = None

\* Step 3 never returns a sentence: a lead that reaches it is shorter than
\* 30 characters, and so is each of its sentences.
StepThreeReturnsNone == StepThree => result = None

----------------------------------------------------------------------------
(* Properties of clean_text (SpecClean).                                   *)

HasRefMark(s) == \E i \in 1 .. Len(s) : RefMatchEnd(s, i) > 0

RECURSIVE IsSubseq(_, _)
\* a is b with some characters left out.
IsSubseq(a, b) ==
  IF a = <<>> THEN TRUE
  ELSE IF b = <<>> THEN FALSE
  ELSE IF Head(a) = Head(b) THEN IsSubseq(Tail(a), Tail(b))
  ELSE IsSubseq(a, Tail(b))

\* C9: clean_text is idempotent.
C9_Idempotent == cpc = "twice" => c2 = c1

\* C10: clean_text(s) holds no reference marker, and the marker step keeps
\* the characters it does not remove in their order.
C10_NoRefMark ==
  cpc # "call" => ~HasRefMark(c1) /\ IsSubseq(RefSub(cin), cin)

============================================================================
